---- MODULE Spec2Model ----
(***************************************************************************)
(* Model of the diagram tools of cloud_native_architecture_mcp/server.py:  *)
(* the three type registries, the component lookup, and call_tool's        *)
(* pipeline (cluster pass, top-level sweep, connections, render, read-back *)
(* and result), driven by the server's request loop.                       *)
(*                                                                         *)
(* A type keyword is a sequence of character codes, so that lower-casing   *)
(* is computed.  A node carries the index of the descriptor it was built   *)
(* from (src) and an edge the index of its connection (conn); both are     *)
(* bookkeeping of the model, the code keeps no such field.                 *)
(***************************************************************************)
EXTENDS Integers, Sequences, FiniteSets, TLC

\* ------------------------------------------------------------------------
\* Bounds of the model
\* ------------------------------------------------------------------------
MaxComps == 2

MaxGroups == 2

MaxConns == 3

MaxCalls == 2

\* ------------------------------------------------------------------------
\* Type registries (keys spelled as character codes)
\* ------------------------------------------------------------------------
k8s_mapping ==
       (<<100,101,112,108,111,121,109,101,110,116>> :> "Deployment")   \* "deployment"
    @@ (<<115,116,97,116,101,102,117,108,115,101,116>> :> "StatefulSet")   \* "statefulset"
    @@ (<<100,97,101,109,111,110,115,101,116>> :> "DaemonSet")   \* "daemonset"
    @@ (<<106,111,98>> :> "Job")   \* "job"
    @@ (<<112,111,100>> :> "Pod")   \* "pod"
    @@ (<<115,101,114,118,105,99,101>> :> "Service")   \* "service"
    @@ (<<105,110,103,114,101,115,115>> :> "Ingress")   \* "ingress"
    @@ (<<112,118,99>> :> "PVC")   \* "pvc"
    @@ (<<112,118>> :> "PV")   \* "pv"
    @@ (<<115,116,111,114,97,103,101,99,108,97,115,115>> :> "StorageClass")   \* "storageclass"
    @@ (<<99,111,110,102,105,103,109,97,112>> :> "ConfigMap")   \* "configmap"
    @@ (<<115,101,99,114,101,116>> :> "Secret")   \* "secret"
    @@ (<<104,112,97>> :> "HPA")   \* "hpa"
    @@ (<<114,101,112,108,105,99,97,115,101,116>> :> "ReplicaSet")   \* "replicaset"

aws_mapping ==
       (<<101,99,50>> :> "EC2")   \* "ec2"
    @@ (<<101,99,115>> :> "ECS")   \* "ecs"
    @@ (<<101,107,115>> :> "EKS")   \* "eks"
    @@ (<<108,97,109,98,100,97>> :> "Lambda")   \* "lambda"
    @@ (<<114,100,115>> :> "RDS")   \* "rds"
    @@ (<<100,121,110,97,109,111,100,98>> :> "Dynamodb")   \* "dynamodb"
    @@ (<<101,108,97,115,116,105,99,97,99,104,101>> :> "Elasticache")   \* "elasticache"
    @@ (<<114,101,100,115,104,105,102,116>> :> "Redshift")   \* "redshift"
    @@ (<<115,51>> :> "S3")   \* "s3"
    @@ (<<101,98,115>> :> "EBS")   \* "ebs"
    @@ (<<101,102,115>> :> "EFS")   \* "efs"
    @@ (<<101,108,98>> :> "ELB")   \* "elb"
    @@ (<<97,108,98>> :> "ALB")   \* "alb"
    @@ (<<110,108,98>> :> "NLB")   \* "nlb"
    @@ (<<99,108,111,117,100,102,114,111,110,116>> :> "CloudFront")   \* "cloudfront"
    @@ (<<114,111,117,116,101,53,51>> :> "Route53")   \* "route53"
    @@ (<<118,112,99>> :> "VPC")   \* "vpc"
    @@ (<<115,113,115>> :> "SQS")   \* "sqs"
    @@ (<<115,110,115>> :> "SNS")   \* "sns"
    @@ (<<101,118,101,110,116,98,114,105,100,103,101>> :> "Eventbridge")   \* "eventbridge"

gcp_mapping ==
       (<<103,99,101>> :> "GCE")   \* "gce"
    @@ (<<103,107,101>> :> "GKE")   \* "gke"
    @@ (<<99,111,109,112,117,116,101,101,110,103,105,110,101>> :> "ComputeEngine")   \* "computeengine"
    @@ (<<102,117,110,99,116,105,111,110,115>> :> "Functions")   \* "functions"
    @@ (<<115,113,108>> :> "SQL")   \* "sql"
    @@ (<<102,105,114,101,115,116,111,114,101>> :> "Firestore")   \* "firestore"
    @@ (<<98,105,103,116,97,98,108,101>> :> "BigTable")   \* "bigtable"
    @@ (<<115,112,97,110,110,101,114>> :> "Spanner")   \* "spanner"
    @@ (<<108,111,97,100,98,97,108,97,110,99,105,110,103>> :> "LoadBalancing")   \* "loadbalancing"
    @@ (<<100,110,115>> :> "DNS")   \* "dns"
    @@ (<<118,112,99>> :> "GCP_VPC")   \* "vpc"
    @@ (<<103,99,115>> :> "GCS")   \* "gcs"
    @@ (<<112,101,114,115,105,115,116,101,110,116,100,105,115,107>> :> "PersistentDisk")   \* "persistentdisk"
    @@ (<<98,105,103,113,117,101,114,121>> :> "BigQuery")   \* "bigquery"
    @@ (<<100,97,116,97,102,108,111,119>> :> "Dataflow")   \* "dataflow"
    @@ (<<112,117,98,115,117,98>> :> "Pubsub")   \* "pubsub"

None == [kind |-> "None", label |-> "None"]

\* str.lower() on the characters a type keyword is made of
Lower(s) ==
    [i \in DOMAIN s |-> IF s[i] \in 65..90 THEN s[i] + 32 ELSE s[i]]

\* dict.get(key, default)
Get(d, key, default) ==
    IF key \in DOMAIN d THEN d[key] ELSE default

get_k8s_component_no_lower(comp_type, name) ==
    IF comp_type \in DOMAIN k8s_mapping
    THEN [kind |-> k8s_mapping[comp_type], label |-> name]
    ELSE None

get_k8s_component(comp_type, name) ==
    IF Lower(comp_type) \in DOMAIN k8s_mapping
    THEN [kind |-> k8s_mapping[Lower(comp_type)], label |-> name]
    ELSE None

get_aws_component(comp_type, name) ==
    IF Lower(comp_type) \in DOMAIN aws_mapping
    THEN [kind |-> aws_mapping[Lower(comp_type)], label |-> name]
    ELSE None

get_gcp_component(comp_type, name) ==
    IF Lower(comp_type) \in DOMAIN gcp_mapping
    THEN [kind |-> gcp_mapping[Lower(comp_type)], label |-> name]
    ELSE None

\* ------------------------------------------------------------------------
\* The three tools
\* ------------------------------------------------------------------------
K8sTool == "build-kubernetes-diagram"

AwsTool == "build-aws-diagram"

GcpTool == "build-gcp-diagram"

ToolNames == {K8sTool, AwsTool, GcpTool}

\* the lookup each branch of call_tool uses
get_component(t, comp_type, name) ==
    CASE t = K8sTool -> get_k8s_component(comp_type, name)
      [] t = AwsTool -> get_aws_component(comp_type, name)
      [] t = GcpTool -> get_gcp_component(comp_type, name)

\* the default diagram name of each branch
DefaultName(t) ==
    CASE t = K8sTool -> "k8s-architecture"
      [] t = AwsTool -> "aws-architecture"
      [] t = GcpTool -> "gcp-architecture"

\* the argument key that holds the groups of each branch
GroupKey(t) ==
    IF t = K8sTool THEN "clusters" ELSE "vpcs"

\* the default container label of each branch
DefaultGroupName(t) ==
    IF t = K8sTool THEN "Cluster" ELSE "VPC"

\* the platform word the status text starts with
StatusPrefix(t) ==
    CASE t = K8sTool -> "Kubernetes"
      [] t = AwsTool -> "AWS"
      [] t = GcpTool -> "GCP"

VARIABLES
    tool,        \* name argument of the call_tool in progress
    arguments,   \* arguments of the call in progress: a function on its keys
    pc,          \* position of the handler
    context,     \* the Diagram context: "none", "open" or "closed"
    components,  \* the pool: component name -> index of its node in nodes
    nodes,       \* nodes created in the Diagram, in creation order
    clusters,    \* labels of the Cluster containers created, in order
    edges,       \* edges created in the Diagram, in creation order
    gi,          \* position of the outer (cluster) loop
    ci,          \* position of the component / connection loop
    files,       \* OUTPUT_DIR: output file -> image written there
    responses,   \* what the server has sent back, one entry per finished call
    inbox        \* requests received and not yet dispatched

vars ==
    <<tool, arguments, pc, context, components, nodes, clusters, edges,
      gi, ci, files, responses, inbox>>

\* locals of call_tool, read from the arguments
diagram_name == Get(arguments, "name", DefaultName(tool))

components_config == Get(arguments, "components", <<>>)

clusters_config == Get(arguments, GroupKey(tool), <<>>)

connections_config == Get(arguments, "connections", <<>>)

output_file == diagram_name

cluster_name == Get(clusters_config[gi], "name", DefaultGroupName(tool))

cluster_component_names == Get(clusters_config[gi], "components", <<>>)

InList(x, s) == \E k \in DOMAIN s : s[k] = x

EmptyMap == [x \in {} |-> 0]

Put(m, k, v) == [x \in DOMAIN m \cup {k} |-> IF x = k THEN v ELSE m[x]]

\* components.get(name) when the name is no key of the pool
NoNode == 0

\* where the handler goes once the cluster pass and the sweep are over
AfterSweep ==
    IF Len(connections_config) > 0 THEN "connect" ELSE "render"

AfterClusters ==
    IF Len(components_config) > 0 THEN "sweep" ELSE AfterSweep

\* component_class(name) inside the active Cluster (0: top level of the Diagram)
NewNode(comp, cluster, src) ==
    [kind |-> comp.kind, label |-> comp.label, cluster |-> cluster, src |-> src]

\* ------------------------------------------------------------------------
\* call_tool, one action per step of the handler
\* ------------------------------------------------------------------------

\* an unknown tool name answered with an empty result instead of an error
UnknownToolEmptyResult ==
    /\ pc = "start"
    /\ tool \notin ToolNames
    /\ pc' = "done"
    /\ responses' = Append(responses, [text |-> [platform |-> "", name |-> "", count |-> 0]])
    /\ UNCHANGED <<tool, arguments, context, components, nodes, clusters,
                   edges, gi, ci, files, inbox>>

\* the final else: no branch matches the tool name
UnknownTool ==
    /\ pc = "start"
    /\ tool \notin ToolNames
    /\ pc' = "error"
    /\ responses' = Append(responses, [error |-> "ValueError", tool |-> tool])
    /\ UNCHANGED <<tool, arguments, context, components, nodes, clusters,
                   edges, gi, ci, files, inbox>>

\* entering the Diagram with the pool of the previous call kept
OpenDiagramKeepPool ==
    /\ pc = "start"
    /\ tool \in ToolNames
    /\ context' = "open"
    /\ components' = components
    /\ nodes' = <<>>
    /\ clusters' = <<>>
    /\ edges' = <<>>
    /\ gi' = 1
    /\ ci' = 1
    /\ pc' = IF Len(clusters_config) > 0 THEN "cluster" ELSE AfterClusters
    /\ UNCHANGED <<tool, arguments, files, responses, inbox>>

\* a branch matches: read the arguments, enter Diagram(...), components = {}
OpenDiagram ==
    /\ pc = "start"
    /\ tool \in ToolNames
    /\ context' = "open"
    /\ components' = EmptyMap
    /\ nodes' = <<>>
    /\ clusters' = <<>>
    /\ edges' = <<>>
    /\ gi' = 1
    /\ ci' = 1
    /\ pc' = IF Len(clusters_config) > 0 THEN "cluster" ELSE AfterClusters
    /\ UNCHANGED <<tool, arguments, files, responses, inbox>>

\* with Cluster(cluster_name): the container of group gi is created
OpenCluster ==
    /\ pc = "cluster"
    /\ clusters' = Append(clusters, cluster_name)
    /\ ci' = 1
    /\ IF Len(components_config) > 0
       THEN /\ pc' = "cluster_comp"
            /\ gi' = gi
       ELSE /\ gi' = gi + 1
            /\ pc' = IF gi < Len(clusters_config) THEN "cluster" ELSE AfterClusters
    /\ UNCHANGED <<tool, arguments, context, components, nodes, edges,
                   files, responses, inbox>>

\* one iteration of the loop over components_config inside Cluster gi
ClusterComponent ==
    /\ pc = "cluster_comp"
    /\ LET comp_config == components_config[ci]
           comp == get_component(tool, comp_config.type, comp_config.name)
       IN  IF InList(comp_config.name, cluster_component_names) /\ comp # None
           THEN /\ nodes' = Append(nodes, NewNode(comp, gi, ci))
                /\ components' = Put(components, comp_config.name, Len(nodes) + 1)
           ELSE UNCHANGED <<nodes, components>>
    /\ IF ci < Len(components_config)
       THEN /\ ci' = ci + 1
            /\ UNCHANGED <<gi, pc>>
       ELSE /\ ci' = 1
            /\ gi' = gi + 1
            /\ pc' = IF gi < Len(clusters_config) THEN "cluster" ELSE AfterClusters
    /\ UNCHANGED <<tool, arguments, context, clusters, edges, files,
                   responses, inbox>>

\* the sweep with the pool test dropped
SweepComponentNoTest ==
    /\ pc = "sweep"
    /\ LET comp_config == components_config[ci]
           comp == get_component(tool, comp_config.type, comp_config.name)
       IN  IF comp # None
           THEN /\ nodes' = Append(nodes, NewNode(comp, 0, ci))
                /\ components' = Put(components, comp_config.name, Len(nodes) + 1)
           ELSE UNCHANGED <<nodes, components>>
    /\ IF ci < Len(components_config)
       THEN /\ ci' = ci + 1
            /\ pc' = pc
       ELSE /\ ci' = 1
            /\ pc' = AfterSweep
    /\ UNCHANGED <<tool, arguments, context, clusters, edges, gi, files,
                   responses, inbox>>

\* one iteration of "Create remaining components not in clusters"
SweepComponent ==
    /\ pc = "sweep"
    /\ LET comp_config == components_config[ci]
           comp == get_component(tool, comp_config.type, comp_config.name)
       IN  IF comp_config.name \notin DOMAIN components /\ comp # None
           THEN /\ nodes' = Append(nodes, NewNode(comp, 0, ci))
                /\ components' = Put(components, comp_config.name, Len(nodes) + 1)
           ELSE UNCHANGED <<nodes, components>>
    /\ IF ci < Len(components_config)
       THEN /\ ci' = ci + 1
            /\ pc' = pc
       ELSE /\ ci' = 1
            /\ pc' = AfterSweep
    /\ UNCHANGED <<tool, arguments, context, clusters, edges, gi, files,
                   responses, inbox>>

\* the connection loop testing only the source endpoint
ConnectStepFromOnly ==
    /\ pc = "connect"
    /\ LET conn == connections_config[ci]
           from_comp == Get(components, conn["from"], NoNode)
           to_comp == Get(components, conn["to"], NoNode)
           label == Get(conn, "label", "")
       IN  IF from_comp # NoNode
           THEN edges' = Append(edges, [from |-> from_comp, to |-> to_comp,
                                        label |-> label, conn |-> ci])
           ELSE edges' = edges
    /\ IF ci < Len(connections_config)
       THEN /\ ci' = ci + 1
            /\ pc' = pc
       ELSE /\ ci' = 1
            /\ pc' = "render"
    /\ UNCHANGED <<tool, arguments, context, components, nodes, clusters, gi,
                   files, responses, inbox>>

\* the connection loop creating a missing target on demand
ConnectStepLazyTarget ==
    /\ pc = "connect"
    /\ LET conn == connections_config[ci]
           from_comp == Get(components, conn["from"], NoNode)
           to_comp == Get(components, conn["to"], NoNode)
           label == Get(conn, "label", "")
       IN  IF from_comp # NoNode /\ to_comp = NoNode
           THEN /\ nodes' = Append(nodes, [kind |-> "Node", label |-> conn["to"],
                                           cluster |-> 0, src |-> 0])
                /\ components' = Put(components, conn["to"], Len(nodes) + 1)
                /\ edges' = Append(edges, [from |-> from_comp, to |-> Len(nodes) + 1,
                                           label |-> label, conn |-> ci])
           ELSE /\ UNCHANGED <<nodes, components>>
                /\ IF from_comp # NoNode /\ to_comp # NoNode
                   THEN edges' = Append(edges, [from |-> from_comp, to |-> to_comp,
                                                label |-> label, conn |-> ci])
                   ELSE edges' = edges
    /\ IF ci < Len(connections_config)
       THEN /\ ci' = ci + 1
            /\ pc' = pc
       ELSE /\ ci' = 1
            /\ pc' = "render"
    /\ UNCHANGED <<tool, arguments, context, clusters, gi, files, responses, inbox>>

\* one iteration of "Create connections"
ConnectStep ==
    /\ pc = "connect"
    /\ LET conn == connections_config[ci]
           from_comp == Get(components, conn["from"], NoNode)
           to_comp == Get(components, conn["to"], NoNode)
           label == Get(conn, "label", "")
       IN  IF from_comp # NoNode /\ to_comp # NoNode
           THEN edges' = Append(edges, [from |-> from_comp, to |-> to_comp,
                                        label |-> label, conn |-> ci])
           ELSE edges' = edges
    /\ IF ci < Len(connections_config)
       THEN /\ ci' = ci + 1
            /\ pc' = pc
       ELSE /\ ci' = 1
            /\ pc' = "render"
    /\ UNCHANGED <<tool, arguments, context, components, nodes, clusters, gi,
                   files, responses, inbox>>

\* what the Diagram holds: the image the renderer draws from it
Drawing ==
    [title |-> diagram_name, clusters |-> clusters, nodes |-> nodes, edges |-> edges]

\* leaving the Diagram context writes <output_file>.png
Render ==
    /\ pc = "render"
    /\ files' = Put(files, output_file, Drawing)
    /\ context' = "none"
    /\ pc' = "read"
    /\ UNCHANGED <<tool, arguments, components, nodes, clusters, edges, gi, ci,
                   responses, inbox>>

\* base64.b64encode(...).decode("utf-8") of the bytes of an image
B64(bytes) == [b64 |-> bytes]

\* the status text of a branch
StatusText(n) ==
    [platform |-> StatusPrefix(tool), name |-> diagram_name, count |-> n]

\* the result reporting the number of input descriptors
ReadAndReturnInputCount ==
    /\ pc = "read"
    /\ LET image_data == B64(files[output_file])
       IN  responses' = Append(responses,
               [text |-> StatusText(Len(components_config)),
                image |-> [data |-> image_data, mimeType |-> "image/png"]])
    /\ pc' = "done"
    /\ UNCHANGED <<tool, arguments, context, components, nodes, clusters, edges,
                   gi, ci, files, inbox>>

\* read the generated image back and return the two content items
ReadAndReturn ==
    /\ pc = "read"
    /\ LET image_data == B64(files[output_file])
       IN  responses' = Append(responses,
               [text |-> StatusText(Cardinality(DOMAIN components)),
                image |-> [data |-> image_data, mimeType |-> "image/png"]])
    /\ pc' = "done"
    /\ UNCHANGED <<tool, arguments, context, components, nodes, clusters, edges,
                   gi, ci, files, inbox>>

\* the result of the call that has just ended
result == responses[Len(responses)]

\* ------------------------------------------------------------------------
\* The server loop: requests are received, then handled one after another
\* ------------------------------------------------------------------------
Idle == {"idle", "done", "error"}

\* calls received so far, handled or not
Received ==
    inbox + Len(responses) + (IF pc \in Idle THEN 0 ELSE 1)

\* a request arrives on the input stream
Receive ==
    /\ Received < MaxCalls
    /\ inbox' = inbox + 1
    /\ UNCHANGED <<tool, arguments, pc, context, components, nodes, clusters,
                   edges, gi, ci, files, responses>>

\* a handler started while another one is in its pipeline
DispatchAnyTime(Reqs) ==
    /\ inbox > 0
    /\ pc # "start"
    /\ \E r \in Reqs :
          /\ tool' = r.tool
          /\ arguments' = r.arguments
    /\ pc' = "start"
    /\ inbox' = inbox - 1
    /\ UNCHANGED <<context, components, nodes, clusters, edges, gi, ci,
                   files, responses>>

\* the loop calls call_tool(name, arguments) for the next request; the
\* handler has no await, so the previous call has returned or raised
Dispatch(Reqs) ==
    /\ inbox > 0
    /\ pc \in Idle
    /\ \E r \in Reqs :
          /\ tool' = r.tool
          /\ arguments' = r.arguments
    /\ pc' = "start"
    /\ inbox' = inbox - 1
    /\ UNCHANGED <<context, components, nodes, clusters, edges, gi, ci,
                   files, responses>>

\* ------------------------------------------------------------------------
\* Requests the model is run on
\* ------------------------------------------------------------------------
SeqsUpTo(S, n) == UNION {[1..k -> S] : k \in 0..n}

Names == {"a", "b"}

UnknownName == "build-azure-diagram"

\* type keywords tried with each tool: a registry key in another case and a
\* word the registry of the tool does not have; for the cluster tool also a
\* second registry key, in lower case
TypesOf(t) ==
    CASE t = K8sTool -> {<<112,111,100>>, <<80,86>>, <<122,122>>}       \* pod PV zz
      [] t = AwsTool -> {<<86,80,67>>, <<112,111,100>>}                 \* VPC pod
      [] t = GcpTool -> {<<86,112,99>>, <<112,111,100>>}                \* Vpc pod

Descriptors(t) ==
    {[type |-> ty, name |-> n] : ty \in TypesOf(t), n \in Names}

Groups ==
    { [name |-> "ns1", components |-> <<"a">>],
      [name |-> "ns2", components |-> <<"a", "b">>],
      EmptyMap }

Conns ==
    { [from |-> "a", to |-> "a"],
      [from |-> "a", to |-> "b"],
      [from |-> "b", to |-> "a"],
      [from |-> "a", to |-> "b", label |-> "calls"],
      [from |-> "a", to |-> "a", label |-> ""] }

Request(t, args) == [tool |-> t, arguments |-> args]

\* components and groups vary
ReqAssemble ==
    UNION { { Request(t, ("name" :> "d1") @@ ("components" :> cl) @@ (GroupKey(t) :> gl)) :
                cl \in SeqsUpTo(Descriptors(t), MaxComps),
                gl \in SeqsUpTo(Groups, MaxGroups) } : t \in ToolNames }

RegistryWord(t) ==
    CASE t = K8sTool -> <<112,111,100>>
      [] t = AwsTool -> <<115,51>>
      [] t = GcpTool -> <<115,113,108>>

ConnComps(t) ==
    { <<[type |-> RegistryWord(t), name |-> "a"]>>,
      <<[type |-> RegistryWord(t), name |-> "a"], [type |-> RegistryWord(t), name |-> "b"]>> }

\* connections vary
ReqConnect ==
    UNION { { Request(t, ("name" :> "d1") @@ ("components" :> cl) @@ (GroupKey(t) :> gl)
                         @@ ("connections" :> xl)) :
                cl \in ConnComps(t),
                gl \in {<<>>, <<[name |-> "ns1", components |-> <<"a">>]>>},
                xl \in SeqsUpTo(Conns, MaxConns) } : t \in ToolNames }

Restrict(f, S) == [x \in S |-> f[x]]

FullArguments(t) ==
    ("name" :> "d2") @@ ("components" :> <<[type |-> RegistryWord(t), name |-> "a"]>>)
    @@ (GroupKey(t) :> <<[name |-> "ns1", components |-> <<"a">>]>>)
    @@ ("connections" :> <<[from |-> "a", to |-> "a"]>>)

\* the tool name and the presence of each top-level field vary
ReqFacade ==
    UNION { { Request(t, Restrict(FullArguments(t), S)) :
                S \in SUBSET (DOMAIN FullArguments(t)) } : t \in ToolNames }
    \cup { Request(UnknownName, Restrict(FullArguments(K8sTool), S)) :
                S \in SUBSET (DOMAIN FullArguments(K8sTool)) }

\* ------------------------------------------------------------------------
\* One call on a fresh server
\* ------------------------------------------------------------------------
InitCall(Reqs) ==
    /\ \E r \in Reqs :
          /\ tool = r.tool
          /\ arguments = r.arguments
    /\ pc = "start"
    /\ context = "none"
    /\ components = EmptyMap
    /\ nodes = <<>>
    /\ clusters = <<>>
    /\ edges = <<>>
    /\ gi = 1
    /\ ci = 1
    /\ files = EmptyMap
    /\ responses = <<>>
    /\ inbox = 0

Init == InitCall(ReqAssemble \cup ReqConnect \cup ReqFacade)

Next ==
    \/ UnknownTool
    \/ OpenDiagram
    \/ OpenCluster
    \/ ClusterComponent
    \/ SweepComponent
    \/ ConnectStep
    \/ Render
    \/ ReadAndReturn

Spec == Init /\ [][Next]_vars

\* ------------------------------------------------------------------------
\* Vocabulary of the properties
\* ------------------------------------------------------------------------
Registry(t) ==
    CASE t = K8sTool -> k8s_mapping
      [] t = AwsTool -> aws_mapping
      [] t = GcpTool -> gcp_mapping

Descs == 1..Len(components_config)

NameOf(i) == components_config[i].name

\* descriptor i has a type whose lower-case form is a key of the registry
Resolvable(i) ==
    Lower(components_config[i].type) \in DOMAIN Registry(tool)

KindOf(i) == Registry(tool)[Lower(components_config[i].type)]

\* the groups (by position) that list the name n
GroupsListing(n) ==
    {g \in 1..Len(clusters_config) :
        InList(n, Get(clusters_config[g], "components", <<>>))}

NodesOfName(n) == {k \in DOMAIN nodes : nodes[k].label = n}

NodesOfDesc(i) == {k \in DOMAIN nodes : nodes[k].src = i}

ResolvableNames == {NameOf(i) : i \in {j \in Descs : Resolvable(j)}}

Min(S) == CHOOSE x \in S : \A y \in S : x <= y

Max(S) == CHOOSE x \in S : \A y \in S : x >= y

\* C1: when the call is done, every name of the pool that more than one
\* group lists has all its nodes inside the first group that lists it.
FirstGroupWins ==
    pc = "done" =>
        \A n \in DOMAIN components :
            Cardinality(GroupsListing(n)) > 1 =>
                \A k \in NodesOfName(n) : nodes[k].cluster = Min(GroupsListing(n))

\* C2: when the call is done, every component name with a resolvable type
\* has been drawn as exactly one node, and every other name as none.
DrawnExactlyOnce ==
    pc = "done" =>
        \A n \in {NameOf(i) : i \in Descs} :
            Cardinality(NodesOfName(n)) = IF n \in ResolvableNames THEN 1 ELSE 0

WinnerOf(n) ==
    LET cands == {i \in Descs : NameOf(i) = n /\ Resolvable(i)}
    IN  IF GroupsListing(n) # {} THEN Max(cands) ELSE Min(cands)

Resolving ==
    {i \in 1..Len(connections_config) :
        /\ connections_config[i]["from"] \in DOMAIN components
        /\ connections_config[i]["to"] \in DOMAIN components}

\* C4: when the call is done, connection i has one edge if both its
\* endpoints are keys of the pool and none otherwise, the edge joins the
\* pool's nodes of the two names, and there are as many edges as such
\* connections; the call has not ended in an error.
EdgeIffBothEndpoints ==
    /\ tool \in ToolNames => pc # "error"
    /\ pc = "done" =>
          /\ Len(edges) = Cardinality(Resolving)
          /\ \A i \in 1..Len(connections_config) :
                Cardinality({k \in DOMAIN edges : edges[k].conn = i})
                    = IF i \in Resolving THEN 1 ELSE 0
          /\ \A k \in DOMAIN edges :
                /\ edges[k].from = components[connections_config[edges[k].conn]["from"]]
                /\ edges[k].to = components[connections_config[edges[k].conn]["to"]]

ParallelAndSkipped ==
    /\ pc = "done"
    /\ \E k1, k2 \in DOMAIN edges :
          k1 # k2 /\ edges[k1].from = edges[k2].from /\ edges[k1].to = edges[k2].to
    /\ Len(edges) < Len(connections_config)

\* C5 as stated: when the call is done, the count of the status text is the
\* size of the pool, and that size is the number of names whose last
\* descriptor is resolvable.
PoolSizeLastWriteWins ==
    pc = "done" =>
        /\ result.text.count = Cardinality(DOMAIN components)
        /\ Cardinality(DOMAIN components)
             = Cardinality({NameOf(j) : j \in {i \in Descs :
                    /\ Resolvable(i)
                    /\ \A k \in Descs : k > i => NameOf(k) # NameOf(i)}})

\* C5 amended: when the call is done, the count of the status text is the
\* size of the pool, and that size is the number of distinct names carried
\* by at least one descriptor with a resolvable type.
PoolSizeIsResolvableNames ==
    pc = "done" =>
        /\ result.text.count = Cardinality(DOMAIN components)
        /\ Cardinality(DOMAIN components) = Cardinality(ResolvableNames)

FewerEntriesThanDescriptors ==
    /\ pc = "done"
    /\ result.text.count = 1
    /\ Len(components_config) = 2
    /\ Resolvable(1)
    /\ ~Resolvable(2)
    /\ NameOf(1) = NameOf(2)

UnknownToolRejected ==
    /\ tool \notin ToolNames => pc \in {"start", "error"}
    /\ pc = "error" =>
          /\ tool \notin ToolNames
          /\ context = "none"
          /\ nodes = <<>>
          /\ clusters = <<>>
          /\ edges = <<>>
          /\ files = EmptyMap
          /\ responses = <<[error |-> "ValueError", tool |-> tool]>>

UnknownToolWithArguments ==
    /\ pc = "error"
    /\ {"name", "components", "connections"} \subseteq DOMAIN arguments

\* C8: a call of a declared tool whose arguments omit name or components
\* never reaches the successful result.
RequiredFieldsValidated ==
    ( /\ tool \in ToolNames
      /\ ~({"name", "components"} \subseteq DOMAIN arguments) )
    => pc # "done"

Rank(p) ==
    CASE p = "idle" -> 0
      [] p = "start" -> 1
      [] p \in {"cluster", "cluster_comp"} -> 2
      [] p = "sweep" -> 3
      [] p = "connect" -> 4
      [] p = "render" -> 5
      [] p = "read" -> 6
      [] p \in {"done", "error"} -> 7

\* C10: in every step of a call, the pool and the nodes change only in the
\* cluster pass and the sweep (or are reset as the Diagram is entered) and
\* only while no edge exists; an edge is created only in the connection
\* loop, which leaves pool and nodes alone and draws connection ci exactly
\* when both its endpoints are keys of the pool; the file is written only
\* at the exit of the Diagram, after the loops; the response is produced
\* only by the read-back, from the file just written; and the handler never
\* moves back to an earlier stage.
StepOrder ==
    [][ /\ (components' # components =>
               pc \in {"start", "cluster_comp", "sweep"})
        /\ (nodes' # nodes =>
               \/ pc = "start"
               \/ pc \in {"cluster_comp", "sweep"} /\ edges = <<>>)
        /\ (edges' # edges =>
               \/ pc = "start"
               \/ pc = "connect" /\ components' = components /\ nodes' = nodes)
        /\ (pc = "connect" /\ pc' # "start" =>
               ((edges' # edges) <=> (ci \in Resolving)))
        /\ (files' # files =>
               pc = "render" /\ edges' = edges /\ nodes' = nodes)
        /\ (responses' # responses /\ pc # "start" =>
               /\ pc = "read"
               /\ files' = files
               /\ result'.image.data = B64(files[output_file]))
        /\ (pc \notin Idle /\ pc' # "start" => Rank(pc') >= Rank(pc))
      ]_vars

EdgeAcrossGroupBoundary ==
    /\ pc = "done"
    /\ Len(connections_config) > 1
    /\ \E k \in DOMAIN edges :
          nodes[edges[k].from].cluster # nodes[edges[k].to].cluster

\* ------------------------------------------------------------------------
\* The server: calls arrive and are handled one after another
\* ------------------------------------------------------------------------
ServerCases(t) ==
    { Request(t, ("name" :> dn) @@ ("components" :> <<[type |-> RegistryWord(t), name |-> "a"]>>)
                 @@ ("connections" :> <<[from |-> "a", to |-> "b"]>>)) :
        dn \in {"d1", "d2"} }
    \cup
    { Request(t, ("name" :> dn)
                 @@ ("components" :> <<[type |-> RegistryWord(t), name |-> "a"],
                                       [type |-> RegistryWord(t), name |-> "b"]>>)
                 @@ (GroupKey(t) :> <<[name |-> "ns1", components |-> <<"a">>]>>)
                 @@ ("connections" :> <<[from |-> "a", to |-> "b"]>>)) :
        dn \in {"d1", "d2"} }

ReqServer ==
    ServerCases(K8sTool) \cup ServerCases(GcpTool)
    \cup { Request(UnknownName, ("name" :> "d1")) }

InitServer ==
    /\ tool = "none"
    /\ arguments = EmptyMap
    /\ pc = "idle"
    /\ context = "none"
    /\ components = EmptyMap
    /\ nodes = <<>>
    /\ clusters = <<>>
    /\ edges = <<>>
    /\ gi = 1
    /\ ci = 1
    /\ files = EmptyMap
    /\ responses = <<>>
    /\ inbox = 0

NextServer ==
    \/ Receive
    \/ Dispatch(ReqServer)
    \/ UnknownTool
    \/ OpenDiagram
    \/ OpenCluster
    \/ ClusterComponent
    \/ SweepComponent
    \/ ConnectStep
    \/ Render
    \/ ReadAndReturn

SpecServer == InitServer /\ [][NextServer]_vars

NoPoolLeak ==
    [][ /\ (pc = "start" /\ pc' \notin {"start", "error"} =>
               components' = EmptyMap)
        /\ (pc = "read" /\ pc' = "done" =>
               /\ DOMAIN components' = ResolvableNames
               /\ Cardinality(DOMAIN components') = Cardinality(ResolvableNames)
               /\ result'.text.count = Cardinality(ResolvableNames))
      ]_vars

SmallerPoolAfterLargerOne ==
    /\ pc = "done"
    /\ Len(responses) = 2
    /\ "image" \in DOMAIN responses[1]
    /\ responses[1].text.count = 2
    /\ DOMAIN components = {"a"}

====
